---- MODULE Spec2Model ----
(***************************************************************************)
(* A model of entangled.loom.lazy: Lazy tasks (targets, dependencies, a    *)
(* lock and a memoized result) and the LazyDB that resolves identifiers.   *)
(*                                                                         *)
(* Every coroutine LazyDB.run(t) is a "call" held in a slot of `calls`.    *)
(* One action is one uninterrupted segment of a coroutine, from one        *)
(* suspension point (waiting for the lock, awaiting asyncio.gather,        *)
(* awaiting inside run()) to the next.  Lazy.reset, LazyDB.reset,          *)
(* LazyDB.add and LazyDB.clean are synchronous and happen between          *)
(* segments.                                                               *)
(***************************************************************************)
EXTENDS Naturals, Sequences, FiniteSets, TLC

\* Number of callers, each awaiting one top-level LazyDB.run at a time.
MaxTop == 1
\* Number of coroutines made by asyncio.gather that exist at one time.
MaxGathered == 4

\* A caller's coroutine is in the caller's slot, gather's coroutines in the others.
Callers == 1..MaxTop

Slots == 1..(MaxTop + MaxGathered)

(***************************************************************************)
(* The Lazy instances of the model, in the order the build script adds     *)
(* them: the diamond A -> {B, C}, B -> D, C -> D, and E, which declares    *)
(* D's target again.                                                       *)
(***************************************************************************)
Pool == <<"A", "B", "C", "D", "E">>

(***************************************************************************)
(* More instances, for a registry built at once: F with the independent    *)
(* dependencies G and H; W, which lists G twice; the cycles P -> Q -> P    *)
(* and S -> S, and T, which depends on P and Q; V, which lists twice an    *)
(* identifier that is the target of no task.                               *)
(***************************************************************************)
Graph == <<"F", "G", "H", "W", "T", "P", "Q", "S", "V">>

\* Number of tasks an overridden on_missing makes, one per call.
MaxMade == 2

\* The instances an overridden on_missing returns for "x".
Made == <<"M1", "M2", "M3", "M4">>

PoolSet ==
    {Pool[i] : i \in 1..Len(Pool)} \cup {Graph[i] : i \in 1..Len(Graph)}
        \cup {Made[i] : i \in 1..Len(Made)}

\* Lazy.targets
Targets(k) ==
    CASE k = "A" -> <<"a">>
      [] k = "B" -> <<"b">>
      [] k = "C" -> <<"c">>
      [] k = "D" -> <<"d">>
      [] k = "E" -> <<"d">>
      [] k = "F" -> <<"f">>
      [] k = "G" -> <<"g">>
      [] k = "H" -> <<"h">>
      [] k = "W" -> <<"w">>
      [] k = "T" -> <<"t">>
      [] k = "P" -> <<"p">>
      [] k = "Q" -> <<"q">>
      [] k = "S" -> <<"s">>
      [] k = "V" -> <<"v">>
      [] OTHER -> <<"x">>

\* Tasks without any dependency.
NoDeps(k) == <<>>

\* Lazy.dependencies
Deps(k) ==
    CASE k = "A" -> <<"b", "c">>
      [] k = "B" -> <<"d">>
      [] k = "C" -> <<"d">>
      [] k = "D" -> <<>>
      [] k = "E" -> <<>>
      [] k = "F" -> <<"g", "h">>
      [] k = "W" -> <<"g", "g">>
      [] k = "T" -> <<"p", "q">>
      [] k = "P" -> <<"q">>
      [] k = "Q" -> <<"p">>
      [] k = "S" -> <<"s">>
      [] k = "V" -> <<"x", "x">>
      [] OTHER -> <<>>

(***************************************************************************)
(* How the run() of a task can end: it returns a value, raises             *)
(* TaskFailure, or raises anything else (the base class's run() raises     *)
(* NotImplementedError).                                                   *)
(***************************************************************************)
RunSignals(k) ==
    CASE k = "A" -> {"value"}
      [] k = "B" -> {"value", "TaskFailure"}
      [] k = "C" -> {"value"}
      [] k = "D" -> {"value", "TaskFailure", "defect"}
      [] k = "G" -> {"value", "defect"}
      [] OTHER -> {"value"}

\* The identifiers callers ask for; "x" is the target of no task.
TopIds == {"a", "d", "x"}

\* The *args a top-level caller passes to LazyDB.run.
TopCtx == <<"ctx">>

Range(s) == {s[i] : i \in 1..Len(s)}

(***************************************************************************)
(* Results.  None is the empty _result.                                    *)
(***************************************************************************)
None == [kind |-> "None"]

Ok(k, v) == [kind |-> "Ok", task |-> k, value |-> v]

\* A failure that does not name the identifier that was asked for.
Unnamed(t) == [kind |-> "MissingFailure", task |-> ""]

MissingFailure(t) == [kind |-> "MissingFailure", task |-> t]

\* A failure that drops the message run() raised it with.
Anonymous(k, m) == [kind |-> "TaskFailure", task |-> k, message |-> ""]

TaskFailure(k, m) == [kind |-> "TaskFailure", task |-> k, message |-> m]

DependencyFailure(k, fs) == [kind |-> "DependencyFailure", task |-> k, dependent |-> fs]

\* Failure.__bool__ is False, Ok.__bool__ is True.
Truthy(o) == o.kind = "Ok"

\* Every outcome, the truthy ones too.
Unfiltered(rs) == rs

\* [f for f in dep_res if not f]
RECURSIVE Falsy(_)
Falsy(rs) ==
    IF rs = <<>> THEN <<>>
    ELSE IF Truthy(Head(rs)) THEN Falsy(Tail(rs))
    ELSE <<Head(rs)>> \o Falsy(Tail(rs))

\* A test that every outcome passes.
Whatever(rs) == TRUE

\* all(dep_res)
All(rs) == \A i \in 1..Len(rs) : Truthy(rs[i])

VARIABLES
    tasks,     \* LazyDB.tasks
    index,     \* LazyDB.index, a function whose domain is the dict's keys
    result,    \* Lazy._result of every instance
    holder,    \* Lazy._lock: the call inside `async with self._lock`, or 0
    waiters,   \* Lazy._lock: the calls suspended in acquire(), first in first out
    calls,     \* the coroutines of LazyDB.run
    hook,      \* LazyDB.on_missing: the policy, and the tasks it has made
    starts,    \* per task, what happened last: a reset, or a start of run()
    last       \* the last step, when it ended a caller's operation

vars == <<tasks, index, result, holder, waiters, calls, hook, starts, last>>

(***************************************************************************)
(* A coroutine of LazyDB.run(id, ctx): where it is (pc), the task it found *)
(* in the index, the call whose gather made it (parent) for which of its   *)
(* dependencies (slot), its result (ret) and the path it ended by (via).   *)
(***************************************************************************)
IdleCall ==
    [pc |-> "idle", id |-> "", task |-> "", parent |-> 0, slot |-> 0,
     top |-> FALSE, ctx |-> <<>>, ret |-> None, via |-> ""]

NewCall(t, parent, slot, top, ctx) ==
    [IdleCall EXCEPT !.pc = "start", !.id = t, !.parent = parent, !.slot = slot,
                     !.top = top, !.ctx = ctx]

(***************************************************************************)
(* What the last step was to a caller: its call of LazyDB.run ended (op    *)
(* "end": the call as it ended, and from, where the call was before the    *)
(* step), or its call of LazyDB.reset returned (op "LazyDB.reset":         *)
(* emptied, the tasks whose result the step cleared).                      *)
(***************************************************************************)
NoOp == [op |-> "", call |-> IdleCall, from |-> "", emptied |-> {}]

\* Lazy.__init__: no result, a free lock.
InitRest ==
    /\ result = [k \in PoolSet |-> None]
    /\ holder = [k \in PoolSet |-> 0]
    /\ waiters = [k \in PoolSet |-> <<>>]
    /\ calls = [c \in Slots |-> IdleCall]
    /\ starts = [k \in PoolSet |-> "new"]
    /\ hook = [policy |-> "default", made |-> 0]
    /\ last = NoOp

\* LazyDB(): no task, an empty index.
Init ==
    /\ tasks = <<>>
    /\ index = <<>>
    /\ InitRest

Free(cs) == {c \in Slots \ Callers : cs[c].pc = "idle"}

\* The i-th smallest free slot.
FreeSlot(cs, i) ==
    CHOOSE f \in Free(cs) : Cardinality({g \in Free(cs) : g < f}) = i - 1

Children(cs, c) == {d \in Slots : cs[d].pc # "idle" /\ cs[d].parent = c}

\* The child of c that resolves c's i-th dependency.
Child(cs, c, i) == CHOOSE d \in Children(cs, c) : cs[d].slot = i

\* A coroutine made by gather and still awaited by the call that made it.
Awaited(cs, c) == cs[c].parent # 0

\* The call as it ends: returned ("done") or raised, by the path via.
Ended(cs, c, how, via, o) == [cs[c] EXCEPT !.pc = how, !.ret = o, !.via = via]

(***************************************************************************)
(* The end of a coroutine.  The result or exception of a coroutine made by *)
(* gather stays in its slot for gather; a coroutine whose gather has       *)
(* already raised is just gone.  A caller gets its result at once (last)   *)
(* and may call again; an exception that reaches a caller is fatal to it,  *)
(* and it calls no more.                                                   *)
(***************************************************************************)
Finish(cs, c, how, via, o) ==
    IF Awaited(cs, c) THEN [cs EXCEPT ![c] = Ended(cs, c, how, via, o)]
    ELSE IF cs[c].top /\ how = "raised"
    THEN [cs EXCEPT ![c] = [IdleCall EXCEPT !.pc = "raised", !.top = TRUE]]
    ELSE [cs EXCEPT ![c] = IdleCall]

FinishLast(cs, c, how, via, o) ==
    IF cs[c].top
    THEN [NoOp EXCEPT !.op = "end", !.call = Ended(cs, c, how, via, o), !.from = cs[c].pc]
    ELSE NoOp

\* Lazy.run_after_deps, `self.run(...)` with the args of the call: what run() receives.
RunArgs(c) == calls[c].ctx

\* One more start of run() since the task's last reset: the first, or one more.
Started(s) == IF s = "run" \/ s = "rerun" THEN "rerun" ELSE "run"

(***************************************************************************)
(* Lazy.run_after_deps, `result = await self.run(...)`: the body of run()  *)
(* starts, in the segment that found every dependency truthy.              *)
(***************************************************************************)
StartRun(c, k, cs) ==
    /\ calls' = [cs EXCEPT ![c].pc = "run"]
    /\ holder' = [holder EXCEPT ![k] = c]
    /\ starts' = [starts EXCEPT ![k] = Started(@)]
    /\ last' = NoOp
    /\ UNCHANGED result

\* A store that would leave `async with` without releasing the lock.
StoreHeld(c, k, cs, via, o) ==
    /\ result' = [result EXCEPT ![k] = o]
    /\ calls' = Finish(cs, c, "done", via, o)
    /\ last' = FinishLast(cs, c, "done", via, o)
    /\ UNCHANGED <<holder, starts>>

(***************************************************************************)
(* Lazy.run_cached, `self._result = ...; return self._result` and the end  *)
(* of `async with`: the result is stored and returned, the lock released.  *)
(***************************************************************************)
Store(c, k, cs, via, o) ==
    /\ result' = [result EXCEPT ![k] = o]
    /\ holder' = [holder EXCEPT ![k] = 0]
    /\ calls' = Finish(cs, c, "done", via, o)
    /\ last' = FinishLast(cs, c, "done", via, o)
    /\ UNCHANGED starts

\* An exception that would be caught and stored like a TaskFailure.
Swallow(c, k, cs, via) == Store(c, k, cs, via, TaskFailure(k, "m"))

(***************************************************************************)
(* An exception leaves run_after_deps and run_cached: nothing is stored,   *)
(* `async with` releases the lock, the awaiter of the call gets it.        *)
(***************************************************************************)
Raise(c, k, cs, via) ==
    /\ holder' = [holder EXCEPT ![k] = 0]
    /\ calls' = Finish(cs, c, "raised", via, None)
    /\ last' = FinishLast(cs, c, "raised", via, None)
    /\ UNCHANGED <<result, starts>>

\* A gather that would make a coroutine for the first dependency only.
SpawnOne(c, k, cs) ==
    /\ Free(cs) # {}
    /\ calls' = [d \in Slots |->
                   IF d = c THEN [cs[c] EXCEPT !.pc = "deps"]
                   ELSE IF d = FreeSlot(cs, 1) THEN NewCall(Deps(k)[1], c, 1, FALSE, <<>>)
                   ELSE cs[d]]
    /\ holder' = [holder EXCEPT ![k] = c]
    /\ last' = NoOp
    /\ UNCHANGED <<result, starts>>

(***************************************************************************)
(* Lazy.run_after_deps, the asyncio.gather of recurse(dep) for every       *)
(* dependency: one new coroutine per dependency, called without args;      *)
(* the call suspends until gather is done.                                 *)
(***************************************************************************)
Spawn(c, k, cs) ==
    LET n == Len(Deps(k)) IN
    /\ Cardinality(Free(cs)) >= n
    /\ calls' = [d \in Slots |->
                   IF d = c THEN [cs[c] EXCEPT !.pc = "deps"]
                   ELSE IF \E i \in 1..n : d = FreeSlot(cs, i)
                   THEN LET i == CHOOSE j \in 1..n : d = FreeSlot(cs, j) IN
                        NewCall(Deps(k)[i], c, i, FALSE, <<>>)
                   ELSE cs[d]]
    /\ holder' = [holder EXCEPT ![k] = c]
    /\ last' = NoOp
    /\ UNCHANGED <<result, starts>>

\* A cell that never counts as occupied.
NeverCached(k) == FALSE

\* Lazy.run_cached, `if self._result is not None`.
Cached(k) == result[k] # None

\* A run_cached that would resolve again whatever the cell holds.
Reacquired(c, k, cs) == IF Deps(k) = <<>> THEN StartRun(c, k, cs) ELSE Spawn(c, k, cs)

(***************************************************************************)
(* Lazy.run_cached inside `async with self._lock`: a result already there  *)
(* is returned; otherwise run_after_deps starts, and with no dependency    *)
(* the empty gather is done at once and run() starts in the same segment.  *)
(***************************************************************************)
Acquired(c, k, cs) ==
    IF Cached(k)
    THEN /\ calls' = Finish(cs, c, "done", "cached", result[k])
         /\ last' = FinishLast(cs, c, "done", "cached", result[k])
         /\ holder' = [holder EXCEPT ![k] = 0]
         /\ UNCHANGED <<result, starts>>
    ELSE IF Deps(k) = <<>> THEN StartRun(c, k, cs)
    ELSE Spawn(c, k, cs)

\* One lock for all tasks: free when no task's lock is held or waited for.
AllFree(k) == \A j \in PoolSet : holder[j] = 0 /\ waiters[j] = <<>>

\* A lock that excludes nobody.
NoLock(k) == TRUE

\* asyncio.Lock.acquire does not suspend when the lock is free and nobody waits.
LockFree(k) == holder[k] = 0 /\ waiters[k] = <<>>

(***************************************************************************)
(* Lazy.run_cached up to the lock: the call takes the free lock and goes   *)
(* on, or suspends at the end of the lock's queue.                         *)
(***************************************************************************)
RunCached(c, k, cs0) ==
    LET cs == [cs0 EXCEPT ![c].task = k] IN
    IF LockFree(k)
    THEN /\ Acquired(c, k, cs)
         /\ UNCHANGED waiters
    ELSE /\ calls' = [cs EXCEPT ![c].pc = "wait"]
         /\ waiters' = [waiters EXCEPT ![k] = Append(@, c)]
         /\ last' = NoOp
         /\ UNCHANGED <<result, holder, starts>>

\* A policy that makes no task.
NoHook(t) == "MissingDependency"

(***************************************************************************)
(* LazyDB.on_missing: the default policy raises MissingDependency; a       *)
(* subclass may return a task instead, here for "x": always the same       *)
(* instance, or a new instance at every call.                              *)
(***************************************************************************)
OnMissing(t) ==
    IF hook.policy = "default" \/ t # "x" THEN "MissingDependency"
    ELSE IF hook.policy = "same" THEN Made[1]
    ELSE Made[hook.made + 1]

\* The policy after on_missing has returned a task.
Hooked == IF hook.policy = "fresh" THEN [hook EXCEPT !.made = @ + 1] ELSE hook

(***************************************************************************)
(* LazyDB.run: the first segment of the coroutine.                         *)
(***************************************************************************)
Run(c, cs) ==
    LET t == cs[c].id IN
    IF t \notin DOMAIN index
    THEN IF OnMissing(t) = "MissingDependency"
         THEN /\ calls' = Finish(cs, c, "done", "missing", MissingFailure(t))
              /\ last' = FinishLast(cs, c, "done", "missing", MissingFailure(t))
              /\ UNCHANGED <<result, holder, waiters, starts, hook>>
         ELSE /\ hook.made < MaxMade
              /\ hook' = Hooked
              /\ RunCached(c, OnMissing(t), cs)
    ELSE /\ RunCached(c, index[t], cs)
         /\ UNCHANGED hook

\* Caller c, who awaits no call, awaits LazyDB.run(t, ctx).
Call(c, t) ==
    /\ calls[c].pc = "idle"
    /\ Run(c, [calls EXCEPT ![c] = NewCall(t, 0, 0, TRUE, TopCtx)])
    /\ UNCHANGED <<tasks, index>>

\* A coroutine made by gather runs its first segment.
Begin(c) ==
    /\ calls[c].pc = "start"
    /\ Run(c, calls)
    /\ UNCHANGED <<tasks, index>>

\* The first waiter of a released lock takes it and goes on.
Wake(c) ==
    /\ calls[c].pc = "wait"
    /\ LET k == calls[c].task IN
       /\ holder[k] = 0
       /\ waiters[k] # <<>>
       /\ Head(waiters[k]) = c
       /\ waiters' = [waiters EXCEPT ![k] = Tail(@)]
       /\ Acquired(c, k, calls)
    /\ UNCHANGED <<tasks, index, hook>>

\* The coroutines of ds are gone.
Released(cs, ds) == [d \in Slots |-> IF d \in ds THEN IdleCall ELSE cs[d]]

\* The results gather returns to call c, in the order of the dependencies.
Gathered(c) ==
    [i \in 1..Len(Deps(calls[c].task)) |-> calls[Child(calls, c, i)].ret]

\* A call that would start run() as soon as one dependency has returned.
DepsEarly(c) ==
    /\ calls[c].pc = "deps"
    /\ LET ch == {d \in Children(calls, c) : calls[d].pc = "done"} IN
       /\ ch # {}
       /\ StartRun(c, calls[c].task, Released(calls, ch))
    /\ UNCHANGED <<tasks, index, waiters, hook>>

(***************************************************************************)
(* Lazy.run_after_deps after gather returned every dependency's result:    *)
(* DependencyFailure without run(), or run() starts.                       *)
(***************************************************************************)
DepsDone(c) ==
    /\ calls[c].pc = "deps"
    /\ LET k == calls[c].task
           ch == Children(calls, c)
       IN
       /\ \A d \in ch : calls[d].pc = "done"
       /\ LET dep_res == Gathered(c)
              cs == Released(calls, ch)
          IN
          IF ~All(dep_res)
          THEN Store(c, k, cs, "deps", DependencyFailure(k, Falsy(dep_res)))
          ELSE StartRun(c, k, cs)
    /\ UNCHANGED <<tasks, index, waiters, hook>>

(***************************************************************************)
(* gather raises the first exception of a dependency's coroutine to the    *)
(* awaiting call; the other coroutines are not cancelled and run on.       *)
(***************************************************************************)
DepsAbort(c) ==
    /\ calls[c].pc = "deps"
    /\ LET k == calls[c].task
           ch == Children(calls, c)
           over == {d \in ch : calls[d].pc \in {"done", "raised"}}
       IN
       /\ \E d \in ch : calls[d].pc = "raised"
       /\ LET cs == [d \in Slots |->
                       IF d \in over THEN IdleCall
                       ELSE IF d \in ch THEN [calls[d] EXCEPT !.parent = 0, !.slot = 0]
                       ELSE calls[d]]
          IN Raise(c, k, cs, "gather")
    /\ UNCHANGED <<tasks, index, waiters, hook>>

(***************************************************************************)
(* The body of run() ends: Ok(self, result), the TaskFailure caught, or    *)
(* any other exception, which is not caught.                               *)
(***************************************************************************)
RunFinish(c, s) ==
    /\ calls[c].pc = "run"
    /\ LET k == calls[c].task IN
       /\ s \in RunSignals(k)
       /\ CASE s = "value" -> Store(c, k, calls, s, Ok(k, "v"))
            [] s = "TaskFailure" -> Store(c, k, calls, s, TaskFailure(k, "m"))
            [] s = "defect" -> Raise(c, k, calls, s)
    /\ UNCHANGED <<tasks, index, waiters, hook>>

\* A reset that leaves the cell as it is.
KeepResult(k) == result

\* Lazy.reset
LazyReset(k) == [result EXCEPT ![k] = None]

\* Whether the body of run() of task k is executing.
Running(k) == holder[k] # 0 /\ calls[holder[k]].pc = "run"

\* A reset of task k: it comes while run() is executing ("busy"), or not.
WasReset(k) == IF Running(k) THEN "busy" ELSE "idle"

\* A reset that would also take the lock from the call that holds it.
ResetRelease(k) ==
    /\ result' = LazyReset(k)
    /\ holder' = [holder EXCEPT ![k] = 0]
    /\ starts' = [starts EXCEPT ![k] = WasReset(k)]
    /\ last' = NoOp
    /\ UNCHANGED <<tasks, index, waiters, calls, hook>>

\* The tasks the callers reset one by one: a task with dependencies and a leaf.
ResetTargets == {"A", "D"}

Reset(k) ==
    /\ result' = LazyReset(k)
    /\ starts' = [starts EXCEPT ![k] = WasReset(k)]
    /\ last' = NoOp
    /\ UNCHANGED <<tasks, index, holder, waiters, calls, hook>>

\* A reset of the tasks the index leads to, not of the enumeration.
ResetIndexed ==
    [k \in PoolSet |-> IF \E t \in DOMAIN index : index[t] = k THEN None ELSE result[k]]

\* LazyDB.reset: `for t in self.tasks: t.reset()`.
DbResetResult == [k \in PoolSet |-> IF k \in Range(tasks) THEN None ELSE result[k]]

DbReset ==
    /\ result' = DbResetResult
    /\ starts' = [k \in PoolSet |-> IF k \in Range(tasks) THEN WasReset(k) ELSE starts[k]]
    /\ last' = [NoOp EXCEPT !.op = "LazyDB.reset",
                            !.emptied = {k \in Range(tasks) : result[k] # None}]
    /\ UNCHANGED <<tasks, index, holder, waiters, calls, hook>>

\* An add that leaves an identifier with the task that declared it first.
KeepIndex(k) ==
    [t \in DOMAIN index \cup Range(Targets(k)) |->
       IF t \in DOMAIN index THEN index[t] ELSE k]

\* LazyDB.add: the index entries of the task's targets.
AddIndex(k) ==
    [t \in DOMAIN index \cup Range(Targets(k)) |->
       IF t \in Range(Targets(k)) THEN k ELSE index[t]]

\* LazyDB.add
AddTask(k) ==
    /\ tasks' = Append(tasks, k)
    /\ index' = AddIndex(k)
    /\ last' = NoOp
    /\ UNCHANGED <<result, holder, waiters, calls, starts, hook>>

\* LazyDB.add, of the next instance of the pool.
Add ==
    /\ Len(tasks) < Len(Pool)
    /\ AddTask(Pool[Len(tasks) + 1])

\* LazyDB.clean
Clean ==
    /\ tasks' = <<>>
    /\ index' = <<>>
    /\ last' = NoOp
    /\ UNCHANGED <<result, holder, waiters, calls, starts, hook>>

\* The segments of the coroutines.
Step ==
    \/ \E c \in Slots : Begin(c)
    \/ \E c \in Slots : Wake(c)
    \/ \E c \in Slots : DepsDone(c)
    \/ \E c \in Slots : DepsAbort(c)
    \/ \E c \in Slots, s \in {"value", "TaskFailure", "defect"} : RunFinish(c, s)

(***************************************************************************)
(* Resolution: the diamond is registered, callers resolve identifiers      *)
(* concurrently and reset tasks and the registry at any moment.            *)
(***************************************************************************)
InitDiamond ==
    /\ tasks = <<"A", "B", "C", "D">>
    /\ index = ("a" :> "A") @@ ("b" :> "B") @@ ("c" :> "C") @@ ("d" :> "D")
    /\ InitRest

NextResolve ==
    \/ \E c \in Callers, t \in TopIds : Call(c, t)
    \/ Step
    \/ \E k \in ResetTargets : Reset(k)
    \/ DbReset

SpecResolve == InitDiamond /\ [][NextResolve]_vars

(***************************************************************************)
(* The registry: a caller builds, cleans and resets the registry at any    *)
(* moment, also while it resolves an identifier.                           *)
(***************************************************************************)
Next ==
    \/ \E t \in TopIds : Call(1, t)
    \/ Step
    \/ DbReset
    \/ Add
    \/ Clean

Spec == Init /\ [][Next]_vars

(***************************************************************************)
(* Resolution of the diamond when every run() ends, with a value or with   *)
(* TaskFailure.  The event loop runs every coroutine that is ready: one    *)
(* just made by gather, the first waiter of a free lock, one whose gather  *)
(* is done; and the body of run() comes to its end.                        *)
(***************************************************************************)
RunEnds(c) == \E s \in {"value", "TaskFailure"} : RunFinish(c, s)

NextLive ==
    \/ \E c \in Callers, t \in TopIds : Call(c, t)
    \/ \E c \in Slots : Begin(c)
    \/ \E c \in Slots : Wake(c)
    \/ \E c \in Slots : DepsDone(c)
    \/ \E c \in Slots : RunEnds(c)
    \/ \E k \in ResetTargets : Reset(k)
    \/ DbReset

Fairness ==
    \A c \in Slots :
       /\ WF_vars(Begin(c))
       /\ WF_vars(Wake(c))
       /\ WF_vars(DepsDone(c))
       /\ WF_vars(RunEnds(c))

SpecLive == InitDiamond /\ [][NextLive]_vars /\ Fairness

(***************************************************************************)
(* Resolution on a registry that holds the tasks of Graph: independent     *)
(* dependencies, a dependency listed twice, and cycles.                    *)
(***************************************************************************)
InitGraph ==
    /\ tasks = Graph
    /\ index = [t \in {"f", "g", "h", "w", "t", "p", "q", "s", "v"} |->
                  CHOOSE k \in {Graph[i] : i \in 1..Len(Graph)} : Targets(k) = <<t>>]
    /\ InitRest

\* The identifiers callers ask for on that registry.
GraphIds == {"f", "w", "t", "s"}

NextGraph ==
    \/ \E c \in Callers, t \in GraphIds : Call(c, t)
    \/ Step
    \/ DbReset

SpecGraph == InitGraph /\ [][NextGraph]_vars

(***************************************************************************)
(* Building: a build script adds instances of the pool in any order, any   *)
(* of them more than once, and cleans the registry.                        *)
(***************************************************************************)
\* Number of tasks in the enumeration.
MaxAdds == 3

Build == \E i \in 1..Len(Pool) : Len(tasks) < MaxAdds /\ AddTask(Pool[i])

NextBuild ==
    \/ Build
    \/ Clean

SpecBuild == Init /\ [][NextBuild]_vars

(***************************************************************************)
(* A subclass of LazyDB whose on_missing returns a task for "x", the same  *)
(* at every call or a new one at every call.  The registry holds V, whose  *)
(* two dependencies are both "x".                                          *)
(***************************************************************************)
InitOverride ==
    /\ tasks = <<"V">>
    /\ index = ("v" :> "V")
    /\ result = [k \in PoolSet |-> None]
    /\ holder = [k \in PoolSet |-> 0]
    /\ waiters = [k \in PoolSet |-> <<>>]
    /\ calls = [c \in Slots |-> IdleCall]
    /\ starts = [k \in PoolSet |-> "new"]
    /\ hook \in {[policy |-> "same", made |-> 0], [policy |-> "fresh", made |-> 0]}
    /\ last = NoOp

NextOverride ==
    \/ \E c \in Callers, t \in {"v", "x"} : Call(c, t)
    \/ \E c \in Slots : Begin(c)
    \/ \E c \in Slots : Wake(c)
    \/ \E c \in Slots : DepsDone(c)
    \/ \E c \in Slots : RunFinish(c, "value")
    \/ DbReset

SpecOverride == InitOverride /\ [][NextOverride]_vars

(***************************************************************************)
(* What a step does to a call, read from the state before and after it.    *)
(***************************************************************************)
\* Call c is at position p after the step and was not before it.
Enters(c, p) == calls'[c].pc = p /\ calls[c].pc # p

\* The step gives o to whoever awaits call c; nobody awaits an abandoned call.
Returns(c, o) ==
    IF c \in Callers
    THEN last'.op = "end" /\ last'.call.pc = "done" /\ last'.call.ret = o
    ELSE IF calls[c].parent # 0 THEN calls'[c].pc = "done" /\ calls'[c].ret = o
    ELSE calls'[c].pc = "idle"

\* The step raises an exception to whoever awaits call c.
Raises(c) ==
    IF c \in Callers THEN last'.op = "end" /\ last'.call.pc = "raised"
    ELSE calls'[c].pc = "raised"

\* The path by which the step ends call c, as its awaiter sees it.
EndsVia(c) == IF c \in Callers THEN last'.call.via ELSE calls'[c].via

IsFalsy(o) == ~Truthy(o)

\* A dependency of call c has returned a falsy outcome to gather.
FalsyDep(c) ==
    /\ calls[c].pc = "deps"
    /\ \E d \in Children(calls, c) : calls[d].pc = "done" /\ IsFalsy(calls[d].ret)

\* A dependency of call c has raised an exception to gather.
RaisedDep(c) == \E d \in Children(calls, c) : calls[d].pc = "raised"

\* Call c, which awaited its dependencies, ends in the step with their results.
DepsEnd(c) ==
    /\ calls[c].pc = "deps"
    /\ calls'[c].pc \notin {"deps", "run"}
    /\ ~RaisedDep(c)

\* The step is a reset of task k (Lazy.reset, or LazyDB.reset reaching k).
ResetOf(k) == starts'[k] # starts[k] /\ starts'[k] \in {"idle", "busy"}

\* The step starts no run().
NoRunStarts == \A c \in Slots : ~Enters(c, "run")

(***************************************************************************)
(* C1: between two resets of a task, run() of the task starts at most      *)
(* once, also in the diamond where two dependents resolve the same         *)
(* dependency concurrently.  It fails: when D's run() raises an exception  *)
(* other than TaskFailure, nothing is stored, the lock is released, and    *)
(* the coroutine gather made for the other dependent runs D again.         *)
(***************************************************************************)
C1_RunOncePerGeneration == \A k \in PoolSet : starts[k] # "rerun"

(***************************************************************************)
(* C2: while a task's result cell is occupied, a step only leaves it as    *)
(* it is or resets it; every resolution of the task that ends returns the  *)
(* stored outcome by the cached path; no run() of the task starts and no   *)
(* call of the task starts resolving its dependencies.                     *)
(***************************************************************************)
C2_Memoized ==
    [][\A k \in PoolSet : result[k] # None =>
          /\ result'[k] \in {result[k], None}
          /\ \A c \in Slots : calls'[c].task = k =>
                /\ ~Enters(c, "run")
                /\ ~Enters(c, "deps")
                /\ Enters(c, "done") =>
                      calls'[c].ret = result[k] /\ calls'[c].via = "cached"
          /\ (last'.op = "end" /\ last'.call.task = k) =>
                /\ last'.call.pc = "done"
                /\ last'.call.ret = result[k]
                /\ last'.call.via = "cached"]_vars

\* A caller's resolution of "a" returned the Ok stored for A, by the cached path.
C2_Witness ==
    /\ last.op = "end"
    /\ last.call.task = "A"
    /\ last.call.via = "cached"
    /\ last.call.ret.kind = "Ok"
    /\ last.call.ret = result["A"]

(***************************************************************************)
(* C3: a call that has got a falsy outcome from one of its dependencies    *)
(* never starts the task's run(); when it ends with the results of its     *)
(* dependencies, the task's cell holds a DependencyFailure and that is     *)
(* what the call returns.  (When another dependency raised, the call       *)
(* raises instead.)                                                        *)
(***************************************************************************)
C3_FalsyDependencySkipsRun ==
    [][\A c \in Slots : FalsyDep(c) =>
          /\ calls'[c].pc # "run"
          /\ DepsEnd(c) =>
                /\ result'[calls[c].task].kind = "DependencyFailure"
                /\ Returns(c, result'[calls[c].task])]_vars

\* A caller got a DependencyFailure for a task whose run() never started.
C3_Witness ==
    /\ last.op = "end"
    /\ last.call.via = "deps"
    /\ last.call.ret.kind = "DependencyFailure"
    /\ last.call.task = "A"
    /\ starts["A"] = "new"

(***************************************************************************)
(* C4: the DependencyFailure a call stores and returns names the call's    *)
(* task and lists exactly the falsy outcomes gather returned, in the       *)
(* order of the task's dependencies.                                       *)
(***************************************************************************)
C4_DependencyFailureLists ==
    [][\A c \in Slots : DepsEnd(c) =>
          LET k == calls[c].task
              o == [kind |-> "DependencyFailure", task |-> k,
                    dependent |-> SelectSeq(Gathered(c), IsFalsy)]
          IN
          /\ o.dependent # <<>>
          /\ result'[k] = o
          /\ Returns(c, o)]_vars

\* A's first dependency failed and its second did not: A lists the first only.
C4_Witness ==
    /\ last.op = "end"
    /\ last.call.task = "A"
    /\ last.call.ret = DependencyFailure("A", <<[kind |-> "TaskFailure", task |-> "B", message |-> "m"]>>)
    /\ result["C"].kind = "Ok"

(***************************************************************************)
(* C5: when run() raises TaskFailure(m), the call stores and returns a     *)
(* TaskFailure of the task carrying m, and raises nothing; a call that     *)
(* got a TaskFailure from a dependency starts no run(), and when it ends   *)
(* with the results of its dependencies it stores and returns a            *)
(* DependencyFailure whose list contains that TaskFailure.                 *)
(***************************************************************************)
C5_TaskFailureIsData ==
    [][\A c \in Slots :
          /\ (calls[c].pc = "run" /\ calls'[c].pc # "run" /\ EndsVia(c) = "TaskFailure") =>
                LET o == [kind |-> "TaskFailure", task |-> calls[c].task, message |-> "m"] IN
                /\ result'[calls[c].task] = o
                /\ Returns(c, o)
          /\ \A d \in Children(calls, c) :
                (calls[c].pc = "deps" /\ calls[d].pc = "done" /\ calls[d].ret.kind = "TaskFailure") =>
                   /\ calls'[c].pc # "run"
                   /\ DepsEnd(c) =>
                         /\ result'[calls[c].task].kind = "DependencyFailure"
                         /\ \E i \in DOMAIN result'[calls[c].task].dependent :
                               result'[calls[c].task].dependent[i] = calls[d].ret
                         /\ Returns(c, result'[calls[c].task])]_vars

\* D's run() raised TaskFailure: D holds it, B holds a DependencyFailure of it.
C5_Witness ==
    /\ result["D"] = [kind |-> "TaskFailure", task |-> "D", message |-> "m"]
    /\ result["B"] = DependencyFailure("B", <<result["D"]>>)
    /\ last.op = "end"
    /\ last.call.task = "A"
    /\ last.call.via = "deps"

(***************************************************************************)
(* C6: a call of LazyDB.run for an identifier the index does not hold      *)
(* (never added, or cleaned away) returns MissingFailure of that           *)
(* identifier in its first segment, raises nothing, starts no run() and    *)
(* leaves the enumeration, the index, the cells and the locks as they      *)
(* were; a call past its first segment has found a task.                   *)
(***************************************************************************)
C6_MissingIsData ==
    [][LET Frame == /\ tasks' = tasks
                    /\ index' = index
                    /\ result' = result
                    /\ holder' = holder
                    /\ waiters' = waiters
                    /\ NoRunStarts
       IN
       /\ \A c \in Slots \ Callers :
             (calls[c].pc = "start" /\ calls'[c].pc # "start" /\ calls[c].id \notin DOMAIN index) =>
                /\ Returns(c, [kind |-> "MissingFailure", task |-> calls[c].id])
                /\ Frame
       /\ (last'.op = "end" /\ last'.from = "start" /\ last'.call.id \notin DOMAIN index) =>
             /\ last'.call.pc = "done"
             /\ last'.call.ret = [kind |-> "MissingFailure", task |-> last'.call.id]
             /\ Frame
       /\ \A c \in Slots : calls'[c].pc \in {"wait", "deps", "run"} => calls'[c].task \in PoolSet]_vars

\* "d" was added and resolved; after clean() a caller gets MissingFailure for it.
C6_Witness ==
    /\ last.op = "end"
    /\ last.call.via = "missing"
    /\ last.call.id = "d"
    /\ last.call.ret.kind = "MissingFailure"
    /\ tasks = <<>>
    /\ result["D"] # None

(***************************************************************************)
(* C7, as stated: a resolution issued after a reset of the task, whenever  *)
(* the reset came, does not return an Ok or TaskFailure unless run() has   *)
(* started since that reset.  It fails for a reset that comes while run()  *)
(* is executing: the evaluation in flight stores its outcome, and a later  *)
(* resolution returns it at once.                                          *)
(***************************************************************************)
C7_RunsAgainAfterAnyReset ==
    (/\ last.op = "end"
     /\ last.from = "start"
     /\ last.call.ret.kind \in {"Ok", "TaskFailure"})
    => starts[last.call.task] \in {"run", "rerun"}

(***************************************************************************)
(* C7, amended: after a reset that comes while run() of the task is not    *)
(* executing, the task's cell holds no Ok or TaskFailure, and no           *)
(* resolution of the task returns one, until run() of the task has         *)
(* started again.                                                          *)
(***************************************************************************)
C7_RunsAgainAfterIdleReset ==
    /\ \A k \in PoolSet :
          result[k].kind \in {"Ok", "TaskFailure"} => starts[k] \in {"run", "rerun", "busy"}
    /\ (last.op = "end" /\ last.call.ret.kind \in {"Ok", "TaskFailure"}) =>
          starts[last.call.task] \in {"run", "rerun", "busy"}

\* A holds the Ok of an earlier resolution, D was reset since, and D has run again.
C7_Witness ==
    /\ result["A"].kind = "Ok"
    /\ last.op = "end"
    /\ last.call.task = "D"
    /\ last.call.via = "value"
    /\ starts["D"] = "run"

(***************************************************************************)
(* C8: a reset of a task whose lock is held moves no call, starts no       *)
(* run() and leaves the lock and its queue as they are; and every          *)
(* evaluation that ends without raising stores its outcome in the cell     *)
(* and returns it, whatever resets came while it was in flight.            *)
(***************************************************************************)
C8_ResetInFlight ==
    [][\A k \in PoolSet :
          /\ (ResetOf(k) /\ holder[k] # 0) =>
                /\ calls' = calls
                /\ holder' = holder
                /\ waiters' = waiters
                /\ result'[k] = None
          /\ \A c \in Slots :
                (/\ holder[k] = c
                 /\ calls[c].pc \in {"deps", "run"}
                 /\ calls'[c].pc \notin {"deps", "run"}
                 /\ c \in Callers \/ calls[c].parent # 0
                 /\ ~Raises(c)) =>
                   /\ result'[k] # None
                   /\ Returns(c, result'[k])]_vars

\* D was reset while its run() was executing; the run's value is stored and returned.
C8_Witness ==
    /\ starts["D"] = "busy"
    /\ last.op = "end"
    /\ last.call.task = "D"
    /\ last.call.via = "value"
    /\ result["D"] = last.call.ret

(***************************************************************************)
(* C9: at any instant at most one call is executing the run() of a task.   *)
(***************************************************************************)
C9_OneRunAtATime ==
    \A k \in PoolSet :
       Cardinality({c \in Slots : calls[c].pc = "run" /\ calls[c].task = k}) <= 1

\* One call executes D's run() while another waits for D's lock.
C9_Witness ==
    \E c, d \in Slots :
       /\ calls[c].pc = "run" /\ calls[c].task = "D"
       /\ calls[d].pc = "wait" /\ calls[d].task = "D"

(***************************************************************************)
(* C10: LazyDB.reset empties the cell of every task of the enumeration,    *)
(* also of a task whose index entries a later add has overwritten, and     *)
(* leaves the enumeration, the index and every other cell as they were.    *)
(***************************************************************************)
C10_ResetAll ==
    [][last'.op = "LazyDB.reset" =>
          /\ \A k \in Range(tasks) : result'[k] = None
          /\ \A k \in PoolSet \ Range(tasks) : result'[k] = result[k]
          /\ tasks' = tasks
          /\ index' = index]_vars

\* E has taken D's index entry; LazyDB.reset emptied D's occupied cell.
C10_Witness ==
    /\ last.op = "LazyDB.reset"
    /\ "D" \in last.emptied
    /\ "d" \in DOMAIN index
    /\ index["d"] = "E"
    /\ result["D"] = None

(***************************************************************************)
(* C11: an add appends the task to the enumeration and removes nothing     *)
(* from it; after any adds since the last clean the index holds exactly    *)
(* the targets of the enumerated tasks, each mapped to the last task of    *)
(* the enumeration that declares it.                                       *)
(***************************************************************************)
LastDeclaring(t, k) ==
    \E i \in 1..Len(tasks) :
       /\ tasks[i] = k
       /\ t \in Range(Targets(k))
       /\ \A j \in (i + 1)..Len(tasks) : t \notin Range(Targets(tasks[j]))

IndexedByLast ==
    /\ DOMAIN index = UNION {Range(Targets(tasks[i])) : i \in 1..Len(tasks)}
    /\ \A t \in DOMAIN index : LastDeclaring(t, index[t])

C11_AddAppendsAndOverwrites ==
    [][/\ IndexedByLast'
       /\ tasks' \notin {tasks, <<>>} =>
             /\ Len(tasks') = Len(tasks) + 1
             /\ SubSeq(tasks', 1, Len(tasks)) = tasks]_vars

\* E was added after D: the index leads "d" to E, the enumeration keeps D.
C11_Witness ==
    /\ tasks = <<"D", "A", "E">>
    /\ index["d"] = "E"
    /\ index["a"] = "A"

(***************************************************************************)
(* C12: when run() raises an exception other than TaskFailure, the call    *)
(* raises it to its awaiter and no cell changes; a call that awaits a      *)
(* dependency which raised never starts run() and never returns an         *)
(* outcome: when it ends it raises to its awaiter and no cell changes.     *)
(***************************************************************************)
Aborts(c) ==
    /\ result' = result
    /\ (c \in Callers \/ calls[c].parent # 0) => Raises(c)

C12_DefectAborts ==
    [][\A c \in Slots :
          /\ (calls[c].pc = "run" /\ calls'[c].pc # "run" /\ EndsVia(c) = "defect") =>
                Aborts(c)
          /\ (calls[c].pc = "deps" /\ RaisedDep(c)) =>
                /\ calls'[c].pc \in {"deps", "raised", "idle"}
                /\ calls'[c].pc # "deps" => Aborts(c)]_vars

\* D's run() raised: the caller of "a" got the exception, no cell on the chain is set.
C12_Witness ==
    /\ last.op = "end"
    /\ last.call.pc = "raised"
    /\ last.call.task = "A"
    /\ last.call.via = "gather"
    /\ \A k \in {"A", "B", "C", "D"} : result[k] = None

(***************************************************************************)
(* C13: every run() that executes receives the context the caller passed   *)
(* to LazyDB.run.  It fails: run_after_deps calls recurse(dep) without     *)
(* the args, so the run() of a dependency receives no context.             *)
(***************************************************************************)
C13_ContextThreaded ==
    \A c \in Slots : calls[c].pc = "run" => RunArgs(c) = TopCtx

(***************************************************************************)
(* C14, as stated: identifier "x" resolves as if the task on_missing       *)
(* returns were registered, so that, as for a registered task, at most     *)
(* one run() for "x" executes at any instant.  It fails when on_missing    *)
(* returns a new task at every call: each call has a task, a lock and a    *)
(* cell of its own, and V's two dependencies run "x" twice at once.        *)
(***************************************************************************)
C14_AsIfRegistered ==
    Cardinality({c \in Slots : calls[c].pc = "run" /\ calls[c].id = "x"}) <= 1

(***************************************************************************)
(* C14, amended: a call for "x" goes on with the task on_missing returned  *)
(* and returns the outcome of that task's cached resolution, never         *)
(* MissingFailure; the task enters neither the enumeration nor the index   *)
(* and no LazyDB.reset reaches it.  When on_missing returns the same       *)
(* task at every call, its run() executes once and every call returns      *)
(* that Ok; when it returns a new task at every call, every call           *)
(* executes the run() of its own task.                                     *)
(***************************************************************************)
C14_AsTheTaskReturned ==
    LET M == {Made[i] : i \in 1..Len(Made)} IN
    /\ \A c \in Slots :
          (calls[c].id = "x" /\ calls[c].pc \notin {"idle", "start"}) => calls[c].task \in M
    /\ (last.op = "end" /\ last.call.id = "x") =>
          /\ last.call.pc = "done"
          /\ last.call.task \in M
          /\ last.call.ret = [kind |-> "Ok", task |-> last.call.task, value |-> "v"]
          /\ hook.policy = "fresh" => last.call.via = "value"
    /\ "x" \notin DOMAIN index
    /\ \A k \in M : k \notin Range(tasks) /\ starts[k] \in {"new", "run"}
    /\ hook.policy = "same" => \A i \in 2..Len(Made) : starts[Made[i]] = "new"
    /\ hook.policy = "fresh" =>
          \A i \in 1..Len(Made) : (starts[Made[i]] = "run") <=> (i <= hook.made)

\* on_missing made a second task for a second call, whose run() gave the call's Ok.
C14_Witness ==
    /\ hook.policy = "fresh"
    /\ hook.made = 2
    /\ last.op = "end"
    /\ last.call.id = "x"
    /\ last.call.task = "M2"
    /\ last.call.via = "value"
    /\ result["M1"].kind = "Ok"

(***************************************************************************)
(* C15: a call starts run() only in a step before which every dependency   *)
(* it asked for has returned a truthy outcome to it, and while a call      *)
(* executes run() none of the coroutines it made for its dependencies      *)
(* is left.                                                                *)
(***************************************************************************)
C15_RunAfterDependencies ==
    [][\A c \in Slots :
          /\ (calls[c].pc = "deps" /\ calls'[c].pc = "run") =>
                /\ Cardinality(Children(calls, c)) = Len(Deps(calls[c].task))
                /\ \A d \in Children(calls, c) :
                      calls[d].pc = "done" /\ calls[d].ret.kind = "Ok"
          /\ calls'[c].pc = "run" => Children(calls', c) = {}
          /\ Enters(c, "run") =>
                calls[c].pc = "deps" \/ Deps(calls'[c].task) = <<>>]_vars

\* A executes run(): B and C, its dependencies, have stored their Ok.
C15_Witness ==
    \E c \in Slots :
       /\ calls[c].pc = "run"
       /\ calls[c].task = "A"
       /\ result["B"].kind = "Ok"
       /\ result["C"].kind = "Ok"

(***************************************************************************)
(* C16: on the diamond, when every run() ends with a value or a            *)
(* TaskFailure and the event loop runs every ready coroutine, every call   *)
(* of LazyDB.run in flight eventually returns an outcome, whatever the     *)
(* callers call and reset meanwhile.                                       *)
(***************************************************************************)
C16_EveryCallReturns ==
    \A c \in Slots :
       (calls[c].pc \in {"start", "wait", "deps", "run"})
          ~> (calls[c].pc \in {"idle", "done"})

\* The whole diamond was resolved and A's caller got the Ok of A's run().
C16_Witness ==
    /\ last.op = "end"
    /\ last.call.pc = "done"
    /\ last.call.task = "A"
    /\ last.call.via = "value"
    /\ last.call.ret.kind = "Ok"

(***************************************************************************)
(* C17: with the cycles P -> Q -> P and S -> S registered, no run() of a   *)
(* task on a cycle ever starts and its cell stays empty; every call that   *)
(* reaches a task on a cycle, the first or a later one, stays at its       *)
(* lock or at its gather and never ends; no call for a task on a cycle,    *)
(* or for T which depends on them, ever returns or raises to a caller.     *)
(***************************************************************************)
C17_CycleNeverReturns ==
    /\ \A k \in {"P", "Q", "S"} : starts[k] \in {"new", "idle"} /\ result[k] = None
    /\ \A c \in Slots :
          calls[c].task \in {"P", "Q", "S"} => calls[c].pc \in {"wait", "deps"}
    /\ \A c \in Slots :
          calls[c].id \in {"p", "q", "s"} => calls[c].pc \in {"start", "wait", "deps"}
    /\ last.op = "end" => last.call.id \notin {"p", "q", "s", "t"}

(***************************************************************************)
(* P holds its lock and awaits "q"; Q holds its lock and awaits "p",       *)
(* which waits for P's lock; T's later request for "q" waits for Q's lock. *)
(***************************************************************************)
C17_Witness ==
    \E w, v \in Slots :
       /\ calls[w].pc = "wait" /\ calls[w].task = "P"
       /\ calls[w].parent # 0
       /\ calls[calls[w].parent].task = "Q"
       /\ holder["Q"] = calls[w].parent
       /\ calls[calls[w].parent].parent # 0
       /\ holder["P"] = calls[calls[w].parent].parent
       /\ calls[v].pc = "wait" /\ calls[v].task = "Q"
       /\ calls[v].parent # 0
       /\ calls[calls[v].parent].task = "T"

(***************************************************************************)
(* C18: the step in which a call starts awaiting its dependencies makes    *)
(* one coroutine for every dependency, each ready to run, before any of    *)
(* them has run; so the run() bodies of F's dependencies G and H can       *)
(* execute at the same time.                                               *)
(***************************************************************************)
C18_FanOutAtOnce ==
    [][\A c \in Slots : Enters(c, "deps") =>
          LET k == calls'[c].task IN
          /\ Cardinality(Children(calls', c)) = Len(Deps(k))
          /\ \A i \in 1..Len(Deps(k)) :
                \E d \in Children(calls', c) :
                   /\ calls'[d].slot = i
                   /\ calls'[d].id = Deps(k)[i]
                   /\ calls'[d].pc = "start"]_vars

\* G's run() and H's run() execute at once, both for the same call of F.
C18_Witness ==
    \E c, g, h \in Slots :
       /\ calls[c].task = "F" /\ calls[c].pc = "deps"
       /\ calls[g].parent = c /\ calls[g].task = "G" /\ calls[g].pc = "run"
       /\ calls[h].parent = c /\ calls[h].task = "H" /\ calls[h].pc = "run"

(***************************************************************************)
(* C19: a call is at the lock of the task the index gives for its          *)
(* identifier only; the identifier is a dependency of the task of the call *)
(* that awaits it, and the task is reachable through dependencies from     *)
(* the task of the call the resolution started with; a call suspends at a  *)
(* lock only when that very lock is held or waited for.  So resolutions    *)
(* of tasks with disjoint dependency sets never wait for each other.       *)
(***************************************************************************)
\* The tasks the index gives for the dependencies of the tasks in ks.
Required(ks) ==
    {index[t] : t \in {u \in UNION {Range(Deps(k)) : k \in ks} : u \in DOMAIN index}}

RECURSIVE Reachable(_)
\* The tasks reachable through dependencies from the tasks in ks.
Reachable(ks) == IF Required(ks) \subseteq ks THEN ks ELSE Reachable(ks \cup Required(ks))

\* The tasks reachable from task k.
Reach(k) == Reachable({k})

RECURSIVE Root(_)
\* The call of a caller, or the orphan, for which call c was made.
Root(c) == IF calls[c].parent = 0 THEN c ELSE Root(calls[c].parent)

OwnLocksOnly ==
    /\ \A c \in Slots : calls[c].pc \in {"wait", "deps", "run"} =>
          /\ calls[c].task = index[calls[c].id]
          /\ calls[c].parent # 0 =>
                /\ calls[c].id \in Range(Deps(calls[calls[c].parent].task))
                /\ calls[c].task \in Reach(calls[Root(c)].task)
    /\ \A k \in PoolSet :
          /\ holder[k] # 0 => calls[holder[k]].task = k
          /\ \A i \in 1..Len(waiters[k]) : calls[waiters[k][i]].task = k

C19_OwnLocksOnly ==
    [][/\ OwnLocksOnly'
       /\ \A c \in Slots : Enters(c, "wait") =>
             holder[calls'[c].task] # 0 \/ waiters[calls'[c].task] # <<>>]_vars

\* G and H reach nothing of each other; both locks are held, nobody waits.
C19_Witness ==
    /\ Reach("G") \cap Reach("H") = {}
    /\ holder["G"] # 0
    /\ holder["H"] # 0
    /\ calls[holder["G"]].id = "g"
    /\ calls[holder["H"]].id = "h"
    /\ \A k \in PoolSet : waiters[k] = <<>>

(***************************************************************************)
(* C20: while A's cell is occupied and D's cell is empty (D was reset, A   *)
(* was not), a caller's call of "a" that ends returns A's cached outcome;  *)
(* that step starts no run(), writes no cell and leaves D's cell empty.    *)
(* Such a call ends in its first segment, or first suspends at A's lock    *)
(* behind an earlier waiter; it never awaits dependencies and never runs   *)
(* A.  A run() of A or of D starts only when that task's cell is empty.    *)
(***************************************************************************)
C20_ResetKeepsDependents ==
    [][/\ (result["A"] # None /\ result["D"] = None) =>
             /\ (last'.op = "end" /\ last'.call.id = "a") =>
                   /\ last'.call.pc = "done"
                   /\ last'.call.via = "cached"
                   /\ last'.call.ret = result["A"]
                   /\ result' = result
                   /\ starts' = starts
                   /\ NoRunStarts
             /\ \A c \in Callers :
                   (calls'[c].id = "a" /\ calls'[c] # calls[c]) =>
                       /\ calls'[c].pc \in {"idle", "done", "wait"}
                       /\ calls'[c].pc = "wait" => waiters["A"] # <<>>
             /\ \A c \in Slots :
                   calls'[c].task = "A" => ~Enters(c, "deps") /\ ~Enters(c, "run")
       /\ \A c \in Slots :
             (Enters(c, "run") /\ calls'[c].task \in {"A", "D"}) =>
                 result[calls'[c].task] = None]_vars

\* A's call returned the cached Ok although D was reset and never ran again.
C20_Witness ==
    /\ last.op = "end" /\ last.from = "start"
    /\ last.call.id = "a" /\ last.call.via = "cached"
    /\ last.call.ret.kind = "Ok"
    /\ result["A"] = last.call.ret
    /\ result["D"] = None
    /\ starts["D"] = "idle"

====
